---- MODULE Spec2Model ----
(***************************************************************************)
(* The postfix ("polka") compiler of chimort/Cplusplus_Dz.                 *)
(*                                                                         *)
(* The repository holds five versions of the same program, each a complete *)
(* translation unit with its own Combine, primitives and compile:          *)
(*   "polka_opt"    src/polka.cpp lines 236-567 (regex compile + optimize) *)
(*   "polka_guard"  src/polka.cpp lines 568-734 (BinaryOP size check)      *)
(*   "part_002"     src/unnamed/part_002 (compile returns optimize(ret))   *)
(*   "part_003"     src/unnamed/part_003 (hand-written scanner)            *)
(*   "part_004"     src/unnamed/part_004 (first scanner, unsigned arity)   *)
(* src/polka.cpp lines 1-235 is "polka_opt" without optimize and with      *)
(* std::move added to compile; it behaves as "polka_opt" and is not a      *)
(* separate version here.                                                  *)
(*                                                                         *)
(* A source string is a sequence of one-character strings.  An `int` is a  *)
(* TLA+ integer in INT_MIN..INT_MAX; an `unsigned` is kept as the `int`    *)
(* with the same 32 bits (4294967295 is -1), compared with ULess.          *)
(***************************************************************************)
EXTENDS Integers, Sequences, FiniteSets, TLC

VARIABLES
    variant,   \* which version of the program runs
    src,       \* the string given to compile
    stmt,      \* what the last compile, | or optimize came to
    made,      \* the operation that made stmt: "compile", "pipe", "optimize"
    pre,       \* the left operand of the last |, or the argument of optimize
    rhs,       \* the right operand of the last |
    pipes,     \* how many times | was used
    in,        \* the stack given to the last apply
    cin,       \* the integers on standard input at the last apply
    res,       \* what the last apply came to
    pc,        \* the last operation performed
    evals      \* the evaluations in progress of one shared statement

vars == <<variant, src, stmt, made, pre, rhs, pipes, in, cin, res, pc, evals>>

(***************************************************************************)
(* 32-bit arithmetic                                                       *)
(***************************************************************************)
INT_MAX == 2147483647
INT_MIN == -2147483647 - 1

AddOverflows(a, b) ==
    \/ b > 0 /\ a > INT_MAX - b
    \/ b < 0 /\ a < INT_MIN - b

\* a + b reduced modulo 2^32 into INT_MIN..INT_MAX
WrapAdd(a, b) ==
    IF ~AddOverflows(a, b) THEN a + b
    ELSE IF b > 0 THEN ((a - INT_MAX) + (b - 1)) + INT_MIN
    ELSE ((a - INT_MIN) + (b + 1)) + INT_MAX

SubOverflows(a, b) ==
    \/ b < 0 /\ a > INT_MAX + b
    \/ b > 0 /\ a < INT_MIN + b

\* a - b reduced modulo 2^32 into INT_MIN..INT_MAX
WrapSub(a, b) ==
    IF ~SubOverflows(a, b) THEN a - b
    ELSE IF b < 0 THEN ((a - INT_MAX) - (b + 1)) + INT_MIN
    ELSE ((a - INT_MIN) - (b - 1)) + INT_MAX

\* the two 16-bit halves of the 32-bit pattern of a
Lo16(a) == a % 65536
Hi16(a) == (a \div 65536) % 65536

\* low and high 16 bits of the product of two 16-bit values
MulPart(x, y) == x * (y % 256) + ((x * (y \div 256)) % 256) * 256
MulLo(x, y) == MulPart(x, y) % 65536
MulHi(x, y) == (MulPart(x, y) \div 65536) + ((x * (y \div 256)) \div 256)

FromHalves(hi, lo) ==
    IF hi >= 32768 THEN (hi - 65536) * 65536 + lo ELSE hi * 65536 + lo

\* a * b reduced modulo 2^32 into INT_MIN..INT_MAX
WrapMul(a, b) ==
    FromHalves((MulHi(Lo16(a), Lo16(b)) + MulLo(Hi16(a), Lo16(b))
                  + MulLo(Lo16(a), Hi16(b))) % 65536,
               MulLo(Lo16(a), Lo16(b)))

MulOverflows(a, b) ==
    IF a = 0 \/ b = 0 THEN FALSE
    ELSE IF a = -1 THEN b = INT_MIN
    ELSE IF b = -1 THEN a = INT_MIN
    ELSE (WrapMul(a, b) \div a) # b

Divisible(a, b) ==
    IF b > 0 THEN a % b = 0
    ELSE IF b = INT_MIN THEN a = INT_MIN \/ a = 0
    ELSE a % (-b) = 0

\* the quotient of the machine's division: rounded toward zero
TruncDiv(a, b) ==
    LET q == a \div b
    IN  IF (a < 0) = (b < 0) \/ Divisible(a, b) THEN q ELSE q + 1

\* the remainder that is never negative
EuclidMod(a, b) ==
    LET r == a - TruncDiv(a, b) * b
    IN  IF r >= 0 THEN r ELSE IF b > 0 THEN r + b ELSE r - b

TruncMod(a, b) == a - TruncDiv(a, b) * b

\* unsigned comparison of two 32-bit patterns
ULess(x, y) == IF (x < 0) = (y < 0) THEN x < y ELSE y < 0
UMax(x, y) == IF ULess(x, y) THEN y ELSE x
UMin(x, y) == IF ULess(x, y) THEN x ELSE y
Max(x, y) == IF x < y THEN y ELSE x
Min(x, y) == IF x < y THEN x ELSE y

(***************************************************************************)
(* What a signed overflow does is undefined; the two builds the model      *)
(* follows wrap (the default code generation) or trap (-ftrapv, UBSan).    *)
(***************************************************************************)
OverflowModes == {"wrap", "trap"}

Value(v) == [ok |-> TRUE, v |-> v]
Undefined(why) == [ok |-> FALSE, why |-> why]

plus(a, b, ovf) ==
    IF AddOverflows(a, b) /\ ovf = "trap" THEN Undefined("signed overflow")
    ELSE Value(WrapAdd(a, b))

minus(a, b, ovf) ==
    IF SubOverflows(a, b) /\ ovf = "trap" THEN Undefined("signed overflow")
    ELSE Value(WrapSub(a, b))

multiplies(a, b, ovf) ==
    IF MulOverflows(a, b) /\ ovf = "trap" THEN Undefined("signed overflow")
    ELSE Value(WrapMul(a, b))

divides(a, b, ovf) ==
    IF b = 0 THEN Undefined("division by zero")
    ELSE IF a = INT_MIN /\ b = -1 THEN Undefined("signed overflow")
    ELSE Value(TruncDiv(a, b))

modulus(a, b, ovf) ==
    IF b = 0 THEN Undefined("division by zero")
    ELSE IF a = INT_MIN /\ b = -1 THEN Undefined("signed overflow")
    ELSE Value(TruncMod(a, b))

func(f, a, b, ovf) ==
    CASE f = "plus" -> plus(a, b, ovf)
      [] f = "minus" -> minus(a, b, ovf)
      [] f = "multiplies" -> multiplies(a, b, ovf)
      [] f = "divides" -> divides(a, b, ovf)
      [] f = "modulus" -> modulus(a, b, ovf)

std_abs(b) ==
    IF b = INT_MIN THEN Undefined("signed overflow")
    ELSE Value(IF b < 0 THEN -b ELSE b)

(***************************************************************************)
(* Statements.  A Statement is a record carrying the three fields of the   *)
(* base class (arguments, results, pure) and what its subclass adds.       *)
(***************************************************************************)
Variants == {"polka_opt", "polka_guard", "part_002", "part_003", "part_004"}

\* a null std::shared_ptr<Statement>
nullptr == [kind |-> "nullptr"]

Statement(kind, arguments, results, pure) ==
    [kind |-> kind, arguments |-> arguments, results |-> results, pure |-> pure]

ConstOp(v) == [kind |-> "ConstOp", arguments |-> 0, results |-> 1, pure |-> TRUE, v |-> v]

BinaryOP(f) == [kind |-> "BinaryOP", arguments |-> 2, results |-> 1, pure |-> TRUE, func |-> f]

Abs(vr) ==
    IF vr \in {"part_003", "part_004"}
    THEN Statement("Abs", 0, 1, TRUE)
    ELSE Statement("Abs", 1, 1, TRUE)

Input(vr) ==
    IF vr \in {"part_003", "part_004"}
    THEN Statement("Input", 0, 1, TRUE)
    ELSE Statement("Input", 0, 1, FALSE)

Dup == Statement("Dup", 1, 2, TRUE)

BlankStr == Statement("BlankStr", 0, 0, TRUE)

\* polka.cpp, part_002: l.arguments + max(int(r.arguments) - int(l.results), 0)
calculateArgumentsCount(l, r) == l.arguments + Max(r.arguments - l.results, 0)

\* polka.cpp, part_002: r.results + max(int(l.results) - int(r.arguments), 0)
calculateResultsCount(l, r) == r.results + Max(l.results - r.arguments, 0)

calculateIsPure(l, r) == l.pure /\ r.pure

\* part_003: the same counts taken as int
CombineArguments003(l, r) == Max(l.arguments, r.arguments - l.results)
CombineResults003(l, r) == l.results + r.results - Min(l.results, r.arguments)

\* part_004: the same counts taken as unsigned, so r_args - l_results wraps
CombineArguments004(l, r) == UMax(l.arguments, WrapSub(r.arguments, l.results))
CombineResults004(l, r) ==
    WrapSub(WrapAdd(l.results, r.results), UMin(l.results, r.arguments))

\* the count of part_003 taken for every version
CombineArgumentsMax(vr, l, r) == Max(l.arguments, r.arguments - l.results)

CombineArguments(vr, l, r) ==
    CASE vr = "part_003" -> CombineArguments003(l, r)
      [] vr = "part_004" -> CombineArguments004(l, r)
      [] OTHER -> calculateArgumentsCount(l, r)

\* the right child taken to consume all it asks for from the left one
CombineResultsAll(vr, l, r) == l.results + r.results - r.arguments

CombineResults(vr, l, r) ==
    CASE vr = "part_003" -> CombineResults003(l, r)
      [] vr = "part_004" -> CombineResults004(l, r)
      [] OTHER -> calculateResultsCount(l, r)

\* Combine::Combine(l, r); both pointers are dereferenced, so neither is null
Combine(vr, l, r) ==
    [kind |-> "Combine",
     arguments |-> CombineArguments(vr, l, r),
     results |-> CombineResults(vr, l, r),
     pure |-> calculateIsPure(l, r),
     l |-> l, r |-> r]

(***************************************************************************)
(* apply.  The outcome of an evaluation is a stack together with what is   *)
(* left of the standard input, or undefined behaviour: back() or           *)
(* pop_back() on an empty vector, a call through a null pointer, a         *)
(* division by zero, INT_MIN / -1, abs(INT_MIN), or a signed overflow in a *)
(* trapping build.                                                         *)
(***************************************************************************)
Ok(stack, input) == [st |-> "ok", stack |-> stack, cin |-> input]
UB(why) == [st |-> "undefined", why |-> why]

back(v) == v[Len(v)]
pop_back(v) == SubSeq(v, 1, Len(v) - 1)
push_back(v, x) == Append(v, x)

ConstOp_apply(op, v, input) == Ok(push_back(v, op.v), input)

\* "polka_guard" and part_003 return a short stack unchanged
\* the operands taken in the order they are popped
BinaryOP_apply_swapped(vr, ovf, op, v, input) ==
    IF Len(v) < 2 THEN Ok(v, input)
    ELSE LET x == func(op.func, back(v), back(pop_back(v)), ovf)
         IN  IF x.ok THEN Ok(push_back(pop_back(pop_back(v)), x.v), input)
             ELSE UB(x.why)

BinaryOP_apply(vr, ovf, op, v, input) ==
    IF vr \in {"polka_guard", "part_003"} /\ Len(v) < 2 THEN Ok(v, input)
    ELSE IF Len(v) < 2 THEN UB("empty vector")
    ELSE LET b == back(v)
             a == back(pop_back(v))
             x == func(op.func, a, b, ovf)
         IN  IF x.ok THEN Ok(push_back(pop_back(pop_back(v)), x.v), input)
             ELSE UB(x.why)

Abs_apply(v, input) ==
    IF Len(v) < 1 THEN UB("empty vector")
    ELSE LET x == std_abs(back(v))
         IN  IF x.ok THEN Ok(push_back(pop_back(v), x.v), input) ELSE UB(x.why)

\* int value; std::cin >> value;  at the end of the stream the extraction
\* stores nothing, and the value pushed is the uninitialized one
Input_apply(v, input) ==
    IF input = <<>> THEN UB("indeterminate value")
    ELSE Ok(push_back(v, Head(input)), Tail(input))

Dup_apply(v, input) ==
    IF Len(v) < 1 THEN UB("empty vector")
    ELSE Ok(push_back(v, back(v)), input)

BlankStr_apply(v, input) == Ok(v, input)

RECURSIVE apply(_, _, _, _, _)
\* Combine::apply: r->apply(l->apply(in)); part_004 has l->apply(r->apply(v))
\* the right child applied first in every version
Combine_apply_rightfirst(vr, ovf, op, v, input) ==
    LET mid == apply(vr, ovf, op.r, v, input)
    IN  IF mid.st # "ok" THEN mid
        ELSE apply(vr, ovf, op.l, mid.stack, mid.cin)

Combine_apply(vr, ovf, op, v, input) ==
    LET first == IF vr = "part_004" THEN op.r ELSE op.l
        second == IF vr = "part_004" THEN op.l ELSE op.r
        mid == apply(vr, ovf, first, v, input)
    IN  IF mid.st # "ok" THEN mid
        ELSE apply(vr, ovf, second, mid.stack, mid.cin)

apply(vr, ovf, op, v, input) ==
    CASE op.kind = "nullptr" -> UB("null pointer")
      [] op.kind = "ConstOp" -> ConstOp_apply(op, v, input)
      [] op.kind = "BinaryOP" -> BinaryOP_apply(vr, ovf, op, v, input)
      [] op.kind = "Abs" -> Abs_apply(v, input)
      [] op.kind = "Input" -> Input_apply(v, input)
      [] op.kind = "Dup" -> Dup_apply(v, input)
      [] op.kind = "BlankStr" -> BlankStr_apply(v, input)
      [] op.kind = "Combine" -> Combine_apply(vr, ovf, op, v, input)

\* operator|: std::make_shared<Combine>(lhs, rhs)
Pipe(vr, lhs, rhs_) == Combine(vr, lhs, rhs_)

(***************************************************************************)
(* Strings                                                                 *)
(***************************************************************************)
Digits == <<"0", "1", "2", "3", "4", "5", "6", "7", "8", "9">>

isdigit(c) == \E i \in 1..10 : Digits[i] = c

DigitValue(c) == (CHOOSE i \in 1..10 : Digits[i] = c) - 1

\* the characters \s of the regular expressions matches
isspace(c) == c \in {" ", "\t", "\n", "\r", "\f"}

starts_with(str, p) == Len(str) >= Len(p) /\ SubSeq(str, 1, Len(p)) = p

remove_prefix(str, n) == SubSeq(str, n + 1, Len(str))

\* the length of the longest prefix of str made of the characters of S
PrefixLen(str, S) ==
    IF \A i \in 1..Len(str) : str[i] \in S THEN Len(str)
    ELSE (CHOOSE i \in 1..Len(str) :
              str[i] \notin S /\ \A j \in 1..(i - 1) : str[j] \in S) - 1

\* str.find_first_not_of(" ") == npos
OnlySpaces(str) == \A i \in 1..Len(str) : str[i] = " "

\* the matches of token_regex \S+ in order
RECURSIVE token_regex(_)
token_regex(str) ==
    IF str = <<>> THEN <<>>
    ELSE IF isspace(Head(str)) THEN token_regex(Tail(str))
    ELSE LET notspace == {c \in {str[i] : i \in 1..Len(str)} : ~isspace(c)}
             n == PrefixLen(str, notspace)
         IN  <<SubSeq(str, 1, n)>> \o token_regex(remove_prefix(str, n))

\* regex_match(token, [-+]?\d+)
number_regex(token) ==
    /\ token # <<>>
    /\ LET body == IF Head(token) \in {"-", "+"} THEN Tail(token) ELSE token
       IN  body # <<>> /\ \A i \in 1..Len(body) : isdigit(body[i])

\* minus the value of a digit string, or 1 when that is below INT_MIN
RECURSIVE Negated(_, _)
Negated(ds, acc) ==
    IF ds = <<>> THEN acc
    ELSE LET d == DigitValue(Head(ds))
         IN  IF acc < (INT_MIN + d + 9) \div 10 THEN 1
             ELSE Negated(Tail(ds), acc * 10 - d)

\* std::stoi of a token that matches number_regex: the value, or out_of_range
stoi(token) ==
    LET neg == Head(token) = "-"
        ds == IF Head(token) \in {"-", "+"} THEN Tail(token) ELSE token
        m == Negated(ds, 0)
    IN  IF m = 1 \/ (~neg /\ m = INT_MIN) THEN Undefined("std::out_of_range")
        ELSE Value(IF neg THEN m ELSE -m)

\* number = number * 10 + (*i - '0') over the digits ds, in int
RECURSIVE Accumulate(_, _, _)
Accumulate(ds, number, ovf) ==
    IF ds = <<>> THEN Value(number)
    ELSE LET m == multiplies(number, 10, ovf)
             n == IF m.ok THEN plus(m.v, DigitValue(Head(ds)), ovf) ELSE m
         IN  IF n.ok THEN Accumulate(Tail(ds), n.v, ovf) ELSE n

(***************************************************************************)
(* The operator table, in the order of the array of part_003 and part_004  *)
(***************************************************************************)
OperatorTokens ==
    << <<"+">>, <<"-">>, <<"/">>, <<"*">>, <<"%">>,
       <<"a", "b", "s">>, <<"i", "n", "p", "u", "t">>, <<"d", "u", "p">> >>

create(vr, i) ==
    CASE i = 1 -> BinaryOP("plus")
      [] i = 2 -> BinaryOP("minus")
      [] i = 3 -> BinaryOP("divides")
      [] i = 4 -> BinaryOP("multiplies")
      [] i = 5 -> BinaryOP("modulus")
      [] i = 6 -> Abs(vr)
      [] i = 7 -> Input(vr)
      [] i = 8 -> Dup

\* operator_mapping.find(token): the index of the token, 0 for end()
operator_mapping(token) ==
    IF \E i \in 1..8 : OperatorTokens[i] = token
    THEN CHOOSE i \in 1..8 : OperatorTokens[i] = token
    ELSE 0

\* ret = !ret ? op : (ret | op)
Chain(vr, ret, op) == IF ret = nullptr THEN op ELSE Pipe(vr, ret, op)

(***************************************************************************)
(* What a call of compile or optimize comes to: it returns a pointer, it   *)
(* throws, it never returns, or its behaviour is undefined.                *)
(***************************************************************************)
Returned(op) == [st |-> "returned", op |-> op]
Thrown(what) == [st |-> "thrown", what |-> what]
Hang == [st |-> "hang"]

(***************************************************************************)
(* optimize                                                                *)
(***************************************************************************)
HasOptimize(vr) == vr \in {"polka_opt", "part_002"}

RECURSIVE optimize(_, _, _)
\* polka.cpp 396-411: two constants fold into the sum of their values
optimize_polka(vr, ovf, s) ==
    IF s.kind = "Combine"
    THEN LET left_optimized == optimize(vr, ovf, s.l)
             right_optimized == optimize(vr, ovf, s.r)
         IN  IF left_optimized.st # "returned" THEN left_optimized
             ELSE IF right_optimized.st # "returned" THEN right_optimized
             ELSE IF left_optimized.op.kind = "ConstOp"
                     /\ right_optimized.op.kind = "ConstOp"
             THEN LET combined_value ==
                          plus(left_optimized.op.v, right_optimized.op.v, ovf)
                  IN  IF combined_value.ok
                      THEN Returned(ConstOp(combined_value.v))
                      ELSE UB(combined_value.why)
             ELSE Returned(Combine(vr, left_optimized.op, right_optimized.op))
    ELSE Returned(s)

\* part_002 130-150: the guard returns stmt itself; two constants fold into
\* input.back(), the value of the right one
optimize_002(vr, ovf, s) ==
    IF s.kind = "Combine"
    THEN LET left_optimized == optimize(vr, ovf, s.l).op
             right_optimized == optimize(vr, ovf, s.r).op
         IN  IF right_optimized.arguments > left_optimized.results
             THEN Returned(s)
             ELSE IF left_optimized.kind = "ConstOp"
                     /\ right_optimized.kind = "ConstOp"
             THEN LET input == ConstOp_apply(right_optimized,
                                   ConstOp_apply(left_optimized, <<>>, <<>>).stack,
                                   <<>>).stack
                  IN  Returned(ConstOp(back(input)))
             ELSE Returned(Combine(vr, left_optimized, right_optimized))
    ELSE Returned(s)

RECURSIVE optimize_preorder(_, _, _)
\* the fold tried before the children are optimised
optimize_preorder(vr, ovf, s) ==
    IF s.kind = "Combine"
    THEN IF s.l.kind = "ConstOp" /\ s.r.kind = "ConstOp"
         THEN Returned(ConstOp(WrapAdd(s.l.v, s.r.v)))
         ELSE Returned(Combine(vr, optimize_preorder(vr, ovf, s.l).op,
                                   optimize_preorder(vr, ovf, s.r).op))
    ELSE Returned(s)

optimize(vr, ovf, s) ==
    IF vr = "part_002" THEN optimize_002(vr, ovf, s)
    ELSE optimize_polka(vr, ovf, s)

(***************************************************************************)
(* compile, the regex versions (polka.cpp 352-393 and 689-731, part_002)   *)
(***************************************************************************)
RECURSIVE token_loop(_, _, _)
token_loop(vr, tokens, ret) ==
    IF tokens = <<>> THEN Returned(ret)
    ELSE LET token == Head(tokens)
         IN  IF number_regex(token)
             THEN LET n == stoi(token)
                  IN  IF n.ok
                      THEN token_loop(vr, Tail(tokens), Chain(vr, ret, ConstOp(n.v)))
                      ELSE Thrown(n.why)
             ELSE LET op_it == operator_mapping(token)
                  IN  IF op_it # 0
                      THEN token_loop(vr, Tail(tokens), Chain(vr, ret, create(vr, op_it)))
                      ELSE token_loop(vr, Tail(tokens), ret)

compile_regex(vr, ovf, str) ==
    IF str = <<>> \/ OnlySpaces(str) THEN Returned(BlankStr)
    ELSE LET ret == token_loop(vr, token_regex(str), nullptr)
         IN  IF vr = "part_002" /\ ret.st = "returned"
             THEN optimize(vr, ovf, ret.op)
             ELSE ret

(***************************************************************************)
(* compile, the scanner of part_003 (131-202)                              *)
(***************************************************************************)
consume_space(str) ==
    remove_prefix(str, PrefixLen(str, {" "}))

\* std::optional<int> and what is left of str; nullopt leaves str as it was
parse_num(str, ovf) ==
    LET is_negative == /\ str # <<>> /\ str[1] = "-"
                       /\ Len(str) > 1 /\ isdigit(str[2])
        s1 == IF is_negative THEN remove_prefix(str, 1) ELSE str
        len == PrefixLen(s1, {Digits[k] : k \in 1..10})
        number == Accumulate(SubSeq(s1, 1, len), 0, ovf)
        signed == IF number.ok /\ is_negative THEN minus(0, number.v, ovf)
                  ELSE number
    IN  IF len > 0
        THEN [some |-> TRUE, number |-> signed, rest |-> remove_prefix(s1, len)]
        ELSE [some |-> FALSE, rest |-> s1]

\* the first entry of the table among those that match, 0 when none does
FirstMapping(matching) ==
    IF matching = {} THEN 0
    ELSE CHOOSE i \in matching : \A j \in matching : i <= j

RECURSIVE scan_003(_, _, _, _)
scan_003(vr, ovf, str0, ret) ==
    IF str0 = <<>> THEN Returned(ret)
    ELSE LET str == consume_space(str0)
             number == parse_num(str, ovf)
             m == FirstMapping({i \in 1..8 : starts_with(str, OperatorTokens[i])})
         IN  IF str = <<>> THEN Returned(ret)
             ELSE IF number.some
             THEN IF number.number.ok
                  THEN scan_003(vr, ovf, number.rest,
                                Chain(vr, ret, ConstOp(number.number.v)))
                  ELSE UB(number.number.why)
             ELSE IF m # 0
             THEN scan_003(vr, ovf,
                           consume_space(remove_prefix(str, Len(OperatorTokens[m]))),
                           Chain(vr, ret, create(vr, m)))
             \* nothing was consumed: the while loop runs again on the same str
             ELSE Hang

compile_003(vr, ovf, str) ==
    IF str = <<>> THEN Returned(BlankStr) ELSE scan_003(vr, ovf, str, nullptr)

(***************************************************************************)
(* compile, the scanner of part_004 (135-188)                              *)
(***************************************************************************)
consume_token(str, p) ==
    IF str = p THEN [taken |-> TRUE, rest |-> <<>>]
    ELSE IF starts_with(str, p) /\ str[Len(p) + 1] = " "
    THEN [taken |-> TRUE, rest |-> remove_prefix(str, Len(p) + 1)]
    ELSE [taken |-> FALSE, rest |-> str]

RECURSIVE scan_004(_, _, _, _)
scan_004(vr, ovf, str, ret) ==
    IF str = <<>> THEN Returned(ret)
    ELSE IF str[1] = " " THEN scan_004(vr, ovf, consume_space(str), ret)
    ELSE LET m == FirstMapping({i \in 1..8 : consume_token(str, OperatorTokens[i]).taken})
             len == PrefixLen(str, {Digits[k] : k \in 1..10})
             number == Accumulate(SubSeq(str, 1, len), 0, ovf)
         IN  IF m # 0
             THEN scan_004(vr, ovf, consume_token(str, OperatorTokens[m]).rest,
                           Chain(vr, ret, create(vr, m)))
             \* len = 0: ConstOp(0) is appended for ever and str never shrinks
             ELSE IF len = 0 THEN Hang
             ELSE IF number.ok
             THEN scan_004(vr, ovf, remove_prefix(str, len),
                           Chain(vr, ret, ConstOp(number.v)))
             ELSE UB(number.why)

compile_004(vr, ovf, str) == scan_004(vr, ovf, str, nullptr)

compile(vr, ovf, str) ==
    CASE vr = "part_003" -> compile_003(vr, ovf, str)
      [] vr = "part_004" -> compile_004(vr, ovf, str)
      [] OTHER -> compile_regex(vr, ovf, str)

(***************************************************************************)
(* Inputs                                                                  *)
(***************************************************************************)
MaxPieces == 3
MaxPipes == 1
MaxStack == 2

RECURSIVE Concat(_)
Concat(ss) == IF ss = <<>> THEN <<>> ELSE Head(ss) \o Concat(Tail(ss))

\* the strings of ss with one space between them
RECURSIVE Join(_)
Join(ss) ==
    IF ss = <<>> THEN <<>>
    ELSE IF Len(ss) = 1 THEN Head(ss)
    ELSE Head(ss) \o <<" ">> \o Join(Tail(ss))

SeqsUpTo(S, n) == UNION {[1..k -> S] : k \in 0..n}

T_2 == <<"2">>
T_m3 == <<"-", "3">>
T_plus == <<"+">>
T_minus == <<"-">>
T_div == <<"/">>
T_mul == <<"*">>
T_mod == <<"%">>
T_abs == <<"a", "b", "s">>
T_dup == <<"d", "u", "p">>
T_input == <<"i", "n", "p", "u", "t">>

\* the programs a session starts from, as lists of tokens
TokenLists ==
    { <<>>, <<T_2>>, <<T_m3>>, <<T_plus>>, <<T_minus>>, <<T_div>>, <<T_mul>>,
      <<T_mod>>, <<T_abs>>, <<T_dup>>, <<T_input>>,
      <<T_2, T_plus>>, <<T_2, T_m3>>, <<T_plus, T_plus>>, <<T_m3, T_abs>>,
      <<T_2, T_dup>>, <<T_input, T_plus>>, <<T_2, T_m3, T_minus>> }

Programs == {Join(ts) : ts \in TokenLists}

\* the sources of the right operands of |
OperandSources == {T_2, T_plus, T_abs, T_dup, Join(<<T_2, T_plus>>)}

\* the pieces whose concatenations exercise the scanning of compile
Pieces ==
    { <<" ">>, <<"\t">>, <<"1">>, <<"+">>, <<"-">>, <<"x">>, T_abs,
      <<"2", "1", "4", "7", "4", "8", "3", "6", "4", "8">> }

Strings == {Concat(ps) : ps \in SeqsUpTo(Pieces, MaxPieces)}

StackValues == {0, -2}
Stacks == SeqsUpTo(StackValues, MaxStack)
Streams == {<<>>, <<7>>}

(***************************************************************************)
(* How undefined behaviour lands.  A trapping build aborts on a signed     *)
(* overflow; anything else undefined either kills the process or lets it   *)
(* run on with a stack that holds whatever was in memory.                  *)
(***************************************************************************)
Crash(why) == [st |-> "crash", why |-> why]
Garbage == {<<>>, <<0>>}

Lands(o, input) ==
    IF o.st # "undefined" THEN {o}
    ELSE IF o.why = "signed overflow" THEN {Crash(o.why)}
    ELSE {Crash(o.why)} \cup {Ok(g, input) : g \in Garbage}

\* a compile or optimize whose behaviour is undefined ends the process
Ends(o) == IF o.st = "undefined" THEN Crash(o.why) ELSE o

None == [st |-> "none"]

(***************************************************************************)
(* The session: a main() that compiles a string, composes the statement    *)
(* with others, optimizes it and applies it.                               *)
(***************************************************************************)
InitWith(S) ==
    /\ variant \in Variants
    /\ src \in S
    /\ stmt = None
    /\ made = "none"
    /\ pre = nullptr
    /\ rhs = nullptr
    /\ pipes = 0
    /\ in = <<>>
    /\ cin = <<>>
    /\ res = None
    /\ pc = "start"
    /\ evals = <<>>

Init == InitWith(Programs)

InitStrings == InitWith(Strings)

\* auto s = compile(src);
DoCompile ==
    /\ pc = "start"
    /\ \E ovf \in OverflowModes : stmt' = Ends(compile(variant, ovf, src))
    /\ made' = "compile"
    /\ pc' = "compiled"
    /\ UNCHANGED <<variant, src, pre, rhs, pipes, in, cin, res, evals>>

\* s = s | compile(o);   or   s = s | s;
DoPipe ==
    /\ stmt.st = "returned"
    /\ pipes < MaxPipes
    /\ \E r \in {compile(variant, "wrap", o).op : o \in OperandSources} \cup {stmt.op} :
          /\ rhs' = r
          /\ stmt' = IF stmt.op = nullptr \/ r = nullptr
                     THEN Crash("null pointer")
                     ELSE Returned(Pipe(variant, stmt.op, r))
    /\ pre' = stmt.op
    /\ made' = "pipe"
    /\ pipes' = pipes + 1
    /\ in' = <<>> /\ cin' = <<>> /\ res' = None
    /\ pc' = "piped"
    /\ UNCHANGED <<variant, src, evals>>

\* s = optimize(s);   only polka.cpp 396-411 and part_002 define optimize
DoOptimize ==
    /\ stmt.st = "returned"
    /\ HasOptimize(variant)
    /\ \E ovf \in OverflowModes : stmt' = Ends(optimize(variant, ovf, stmt.op))
    /\ pre' = stmt.op
    /\ rhs' = nullptr
    /\ made' = "optimize"
    /\ in' = <<>> /\ cin' = <<>> /\ res' = None
    /\ pc' = "optimized"
    /\ UNCHANGED <<variant, src, pipes, evals>>

\* s->apply(stack), with the integers of input waiting on std::cin.  apply
\* changes nothing but the record of the last call, so a second apply of the
\* same statement reaches no state the first one does not.
DoApply ==
    /\ stmt.st = "returned"
    /\ pc # "applied"
    /\ \E stack \in Stacks, input \in Streams, ovf \in OverflowModes :
          /\ in' = stack
          /\ cin' = input
          /\ res' \in Lands(apply(variant, ovf, stmt.op, stack, input), input)
    /\ pc' = "applied"
    /\ UNCHANGED <<variant, src, stmt, made, pre, rhs, pipes, evals>>

Next == DoCompile \/ DoPipe \/ DoOptimize \/ DoApply

Spec == Init /\ [][Next]_vars

\* the same session without | and optimize, over the strings of Pieces
NextStrings == DoCompile \/ DoApply

SpecStrings == InitStrings /\ [][NextStrings]_vars

\* the operands of the arithmetic tests of main, with the ends of int
ArithValues == {INT_MIN, -10, -3, -1, 0, 1, 3, 10, INT_MAX}

\* what lies below the two operands
ArithBelow == {<<>>, <<7>>, <<1, 7>>}

ArithStacks == {below \o <<a, b>> : below \in ArithBelow, a \in ArithValues, b \in ArithValues}

ArithSources == {T_plus, T_minus, T_mul, T_div, T_mod}

InitArith == InitWith(ArithSources)

\* s->apply(stack) on the stacks of ArithStacks
DoApplyArith ==
    /\ stmt.st = "returned"
    /\ pc # "applied"
    /\ \E stack \in ArithStacks, ovf \in OverflowModes :
          /\ in' = stack
          /\ cin' = <<>>
          /\ res' \in Lands(apply(variant, ovf, stmt.op, stack, <<>>), <<>>)
    /\ pc' = "applied"
    /\ UNCHANGED <<variant, src, stmt, made, pre, rhs, pipes, evals>>

\* one operator compiled and applied to two operands
NextArith == DoCompile \/ DoApplyArith

SpecArith == InitArith /\ [][NextArith]_vars

(***************************************************************************)
(* One statement applied by several callers at a time.  apply is a const   *)
(* member that takes the vector by value: a caller's evaluation is a walk  *)
(* over the primitives below the statement, in the order Combine::apply    *)
(* calls them, with a vector of its own.                                   *)
(***************************************************************************)
Evaluators == 1..2

SharedSources == {Join(<<T_2, T_plus>>), T_plus, T_dup, Join(<<T_2, T_m3, T_minus>>)}

SharedStacks == {<<0>>, <<0, -2>>}

InitShared == InitWith(SharedSources)

RECURSIVE Worklist(_, _)
\* the primitives below op in the order of the calls of apply
Worklist(vr, op) ==
    IF op.kind = "Combine"
    THEN IF vr = "part_004" THEN Worklist(vr, op.r) \o Worklist(vr, op.l)
         ELSE Worklist(vr, op.l) \o Worklist(vr, op.r)
    ELSE <<op>>

\* every caller calls s->apply(stack) with a stack of its own
StartEvals ==
    /\ stmt.st = "returned" /\ stmt.op # nullptr
    /\ evals = <<>>
    /\ \E stacks \in [Evaluators -> SharedStacks] :
          evals' = [t \in Evaluators |->
                       [op |-> stmt.op, start |-> stacks[t], stack |-> stacks[t],
                        todo |-> Worklist(variant, stmt.op), st |-> "running"]]
    /\ UNCHANGED <<variant, src, stmt, made, pre, rhs, pipes, in, cin, res, pc>>

\* one caller's evaluation enters the apply of its next primitive
StepEval ==
    /\ \E t \in DOMAIN evals, ovf \in OverflowModes :
          LET e == evals[t]
              o == apply(variant, ovf, Head(e.todo), e.stack, <<>>)
          IN  /\ e.st = "running"
              /\ evals' = [evals EXCEPT ![t] =
                    IF o.st # "ok" THEN [e EXCEPT !.st = "undefined"]
                    ELSE [e EXCEPT !.stack = o.stack, !.todo = Tail(e.todo),
                                   !.st = IF Tail(e.todo) = <<>> THEN "done"
                                          ELSE "running"]]
    /\ UNCHANGED <<variant, src, stmt, made, pre, rhs, pipes, in, cin, res, pc>>

NextShared == DoCompile \/ DoPipe \/ StartEvals \/ StepEval

SpecShared == InitShared /\ [][NextShared]_vars

(***************************************************************************)
(* What the claims speak of                                                *)
(***************************************************************************)
RECURSIVE Nodes(_)
\* the statement op and every statement below it
Nodes(op) ==
    IF op.kind = "Combine" THEN {op} \cup Nodes(op.l) \cup Nodes(op.r) ELSE {op}

\* the statements the session holds
Held ==
    (IF stmt.st = "returned" THEN {stmt.op} ELSE {}) \cup {pre, rhs}

\* every Combine the session holds, at any depth
Sequences == {n \in UNION {Nodes(o) : o \in Held} : n.kind = "Combine"}

\* built only from Literal, BinaryArithmetic, Abs, Duplicate and Sequence
PureBuilt(op) ==
    \A n \in Nodes(op) : n.kind \in {"ConstOp", "BinaryOP", "Abs", "Dup", "Combine"}

\* the tokens of a string: its maximal runs of characters other than the space
RECURSIVE SpaceSplit(_)
SpaceSplit(str) ==
    IF str = <<>> THEN <<>>
    ELSE IF Head(str) = " " THEN SpaceSplit(Tail(str))
    ELSE LET n == IF \E i \in 1..Len(str) : str[i] = " "
                  THEN (CHOOSE i \in 1..Len(str) :
                            str[i] = " " /\ \A j \in 1..(i - 1) : str[j] # " ") - 1
                  ELSE Len(str)
         IN  <<SubSeq(str, 1, n)>> \o SpaceSplit(SubSeq(str, n + 1, Len(str)))

Unsigned(t) == IF t # <<>> /\ Head(t) \in {"+", "-"} THEN Tail(t) ELSE t

\* [-+]?[0-9]+
LiteralToken(t) ==
    Unsigned(t) # <<>>
    /\ \A i \in 1..Len(Unsigned(t)) : Unsigned(t)[i] \in {Digits[k] : k \in 1..10}

RECURSIVE Decimal(_)
Decimal(ds) ==
    IF ds = <<>> THEN 0
    ELSE Decimal(SubSeq(ds, 1, Len(ds) - 1)) * 10 + DigitValue(ds[Len(ds)])

\* a literal of at most nine digits is in the 32-bit range
SmallLiteral(t) == LiteralToken(t) /\ Len(Unsigned(t)) <= 9

LiteralValue(t) == IF Head(t) = "-" THEN -Decimal(Unsigned(t)) ELSE Decimal(Unsigned(t))

Keywords == {T_plus, T_minus, T_mul, T_div, T_mod, T_abs, T_dup, T_input}

Stuck == [ok |-> FALSE]
Stack(s) == [ok |-> TRUE, stack |-> s]

\* the stack after one token, by the language definition; Stuck where the
\* token is not a pure recognised one, underflows or has no defined value
Step(t, s) ==
    LET n == Len(s)
        b == s[n]
        a == s[n - 1]
        below == SubSeq(s, 1, n - 2)
    IN  CASE SmallLiteral(t) -> Stack(Append(s, LiteralValue(t)))
          [] t = T_plus /\ n >= 2 -> Stack(Append(below, WrapAdd(a, b)))
          [] t = T_minus /\ n >= 2 -> Stack(Append(below, WrapSub(a, b)))
          [] t = T_mul /\ n >= 2 -> Stack(Append(below, WrapMul(a, b)))
          [] t = T_div /\ n >= 2 /\ b # 0 /\ ~(a = INT_MIN /\ b = -1) ->
                 Stack(Append(below, TruncDiv(a, b)))
          [] t = T_mod /\ n >= 2 /\ b # 0 /\ ~(a = INT_MIN /\ b = -1) ->
                 Stack(Append(below, TruncMod(a, b)))
          [] t = T_abs /\ n >= 1 /\ b # INT_MIN ->
                 Stack(Append(SubSeq(s, 1, n - 1), IF b < 0 THEN -b ELSE b))
          [] t = T_dup /\ n >= 1 -> Stack(Append(s, b))
          [] OTHER -> Stuck

RECURSIVE Evaluate(_, _)
\* the tokens evaluated one at a time, left to right
Evaluate(ts, s) ==
    IF ts = <<>> THEN Stack(s)
    ELSE LET s1 == Step(Head(ts), s)
         IN  IF s1.ok THEN Evaluate(Tail(ts), s1.stack) ELSE Stuck

\* C1: for a source of recognised tokens only and a stack on which the
\* token-by-token evaluation neither underflows nor divides by zero,
\* compile(source) returns a statement and compile(source).apply(stack) is
\* the stack of that evaluation.
C1_CompileApply ==
    LET want == Evaluate(SpaceSplit(src), in)
    IN  (made = "compile" /\ want.ok)
            => /\ stmt.st = "returned"
               /\ pc = "applied" => res = Ok(want.stack, cin)

\* C2: (l | r).apply(s) is r.apply(l.apply(s)), also when l and r are the
\* same object.
C2_LeftThenRight ==
    (pc = "applied" /\ stmt.op.kind = "Combine")
        => LET a == apply(variant, "trap", stmt.op.l, in, cin)
               b == apply(variant, "trap", stmt.op.r, a.stack, a.cin)
           IN  (a.st = "ok" /\ b.st = "ok") => res = b

\* C3: optimize(op).apply(s) is op.apply(s) for every op built only from
\* Literal, BinaryArithmetic, Abs and Duplicate.
C3_OptimizeSame ==
    (pc = "applied" /\ made = "optimize" /\ PureBuilt(pre))
        => LET o == apply(variant, "trap", pre, in, cin)
           IN  o.st = "ok" => res = o

C5_Results ==
    \A n \in Sequences :
        n.results = n.l.results + n.r.results - UMin(n.l.results, n.r.arguments)

\* a Sequence whose right child takes only a part of what the left one leaves
C5_Witness ==
    /\ made = "pipe" /\ stmt.st = "returned"
    /\ stmt.op.r.arguments > 0
    /\ stmt.op.l.results > stmt.op.r.arguments

\* the data-model table: arguments, results, pure
Table(t) ==
    CASE LiteralToken(t) -> <<0, 1, TRUE>>
      [] t \in {T_plus, T_minus, T_mul, T_div, T_mod} -> <<2, 1, TRUE>>
      [] t = T_abs -> <<1, 1, TRUE>>
      [] t = T_dup -> <<1, 2, TRUE>>
      [] t = T_input -> <<0, 1, FALSE>>

\* C6: compile of a single literal or operator reports the arity and purity
\* of the data-model table.
C6_Table ==
    (made = "compile" /\ (SmallLiteral(src) \/ src \in Keywords))
        => /\ stmt.st = "returned"
           /\ stmt.op # nullptr
           /\ <<stmt.op.arguments, stmt.op.results, stmt.op.pure>> = Table(src)

\* C7: compile raises no error on any string and returns a statement that
\* is not null.
C7_CompileValid ==
    made = "compile" => (stmt.st = "returned" /\ stmt.op # nullptr)

\* C8: for the empty string and for strings of spaces compile returns a
\* statement with arguments = 0, results = 0, pure, whose apply returns
\* every stack unchanged.
C8_Blank ==
    (made = "compile" /\ \A i \in 1..Len(src) : src[i] = " ")
        => /\ stmt.st = "returned"
           /\ stmt.op # nullptr
           /\ <<stmt.op.arguments, stmt.op.results, stmt.op.pure>> = <<0, 0, TRUE>>
           /\ pc = "applied" => res = Ok(in, cin)

Recognised(t) == LiteralToken(t) \/ t \in Keywords

RECURSIVE Skip(_)
\* the string without its tokens that are neither literal nor operator
Skip(str) ==
    IF str = <<>> THEN <<>>
    ELSE IF Head(str) = " " THEN <<" ">> \o Skip(Tail(str))
    ELSE LET t == Head(SpaceSplit(str))
         IN  (IF Recognised(t) THEN t ELSE <<>>)
                 \o Skip(SubSeq(str, Len(t) + 1, Len(str)))

\* two outcomes of compile no caller can tell apart
Alike(x, y) ==
    IF x.st = "returned" /\ y.st = "returned" /\ x.op # nullptr /\ y.op # nullptr
    THEN /\ x.op.arguments = y.op.arguments
         /\ x.op.results = y.op.results
         /\ x.op.pure = y.op.pure
         /\ \A s \in Stacks, c \in Streams, ovf \in OverflowModes :
                apply(variant, ovf, x.op, s, c) = apply(variant, ovf, y.op, s, c)
    ELSE x = y

\* C9: compile(s) has the arguments, results, purity and apply results of
\* compile of s without its unrecognised tokens.
C9_Skipped ==
    made = "compile"
        => \E ovf \in OverflowModes :
               /\ stmt = Ends(compile(variant, ovf, src))
               /\ Alike(stmt, Ends(compile(variant, ovf, Skip(src))))

RECURSIVE Underflows(_, _, _, _)
\* some primitive inside op is applied to a stack shorter than the arguments
\* it declares
Underflows(vr, op, v, input) ==
    CASE op.kind = "Combine" ->
             LET first == IF vr = "part_004" THEN op.r ELSE op.l
                 second == IF vr = "part_004" THEN op.l ELSE op.r
                 mid == apply(vr, "wrap", first, v, input)
             IN  \/ Underflows(vr, first, v, input)
                 \/ mid.st = "ok" /\ Underflows(vr, second, mid.stack, mid.cin)
      [] op.kind \in {"BinaryOP", "Abs", "Dup"} -> ULess(Len(v), op.arguments)
      [] OTHER -> FALSE

\* C10: for op built by compile and | from literals, arithmetic, abs and
\* dup, a primitive inside op meets a stack shorter than its declared
\* arguments exactly when the stack given has fewer than op.arguments
\* elements (evaluations that divide by zero aside).
C10_ExactDepth ==
    LET o == apply(variant, "wrap", stmt.op, in, cin)
    IN  (/\ pc = "applied" /\ made \in {"compile", "pipe"}
         /\ stmt.op # nullptr /\ PureBuilt(stmt.op)
         /\ (o.st = "ok" \/ o.why = "empty vector"))
            => (Underflows(variant, stmt.op, in, cin)
                    <=> ULess(Len(in), stmt.op.arguments))

\* C11: (a | b) | c and a | (b | c) report equal arguments, results and
\* purity, and return equal stacks from every stack that has at least that
\* many elements.
C11_Associative ==
    (made = "pipe" /\ stmt.st = "returned" /\ pre.kind = "Combine")
        => LET x == stmt.op
               y == Pipe(variant, pre.l, Pipe(variant, pre.r, rhs))
           IN  /\ x.arguments = y.arguments
               /\ x.results = y.results
               /\ x.pure = y.pure
               /\ \A s \in Stacks, c \in Streams, ovf \in OverflowModes :
                      ~ULess(Len(s), x.arguments)
                          => apply(variant, ovf, x, s, c) = apply(variant, ovf, y, s, c)

\* C12: optimize(optimize(op)) is the same tree as optimize(op): optimize
\* applied to a statement that optimize returned returns it unchanged.
C12_Idempotent ==
    [][(/\ made = "optimize" /\ stmt.st = "returned"
        /\ made' = "optimize" /\ pc' = "optimized")
           => stmt' = stmt]_vars

\* optimize has been applied to a statement that an earlier optimize had
\* made different from what compile returned
C12_Witness ==
    /\ made = "optimize" /\ stmt.st = "returned" /\ pipes = 0
    /\ pre = stmt.op
    /\ \A ovf \in OverflowModes : pre # compile(variant, ovf, src).op

Primitive(op) == op.kind \in {"BinaryOP", "Abs", "Dup"}

\* what an application to a short stack came to
Policy(r, s) ==
    IF r.st = "ok" /\ r.stack = s THEN "unchanged"
    ELSE IF r.st = "thrown" THEN "error"
    ELSE "neither"

\* C13: every application of a primitive (binary arithmetic, abs, dup) to a
\* stack shorter than its declared arguments ends the same way: all return
\* the stack unchanged, or all fail with an underflow error.
C13_Uniform ==
    (/\ pc = "applied" /\ made = "compile"
     /\ Primitive(stmt.op) /\ ULess(Len(in), stmt.op.arguments))
        => /\ Policy(res, in) \in {"unchanged", "error"}
           /\ \A t \in Keywords, s \in Stacks, ovf \in OverflowModes :
                  LET p == compile(variant, ovf, t).op
                  IN  (Primitive(p) /\ ULess(Len(s), p.arguments))
                          => Policy(apply(variant, ovf, p, s, cin), s) = Policy(res, in)

\* the two operands on top of the stack given, and the rest
OperandA == in[Len(in) - 1]
OperandB == in[Len(in)]
Below == SubSeq(in, 1, Len(in) - 2)

\* a binary operator was compiled and applied to at least two elements
BinaryApplied ==
    /\ pc = "applied" /\ made = "compile" /\ stmt.st = "returned"
    /\ stmt.op.kind = "BinaryOP" /\ Len(in) >= 2

\* op(a, b) is a value of int: no zero divisor, nothing out of range
Exact(t, a, b) ==
    CASE t = T_plus -> ~AddOverflows(a, b)
      [] t = T_minus -> ~SubOverflows(a, b)
      [] t = T_mul -> ~MulOverflows(a, b)
      [] OTHER -> b # 0 /\ ~(a = INT_MIN /\ b = -1)

\* C14: a binary operation applied to a stack of at least two elements, b
\* on top and a below it, returns the stack with those two replaced by
\* op(a, b) wherever op(a, b) is a value of int, the elements below kept in
\* order.
C14_Binary ==
    (BinaryApplied /\ Exact(src, OperandA, OperandB))
        => res = Ok(Step(src, in).stack, cin)

\* a subtraction with elements below its operands
C14_Witness ==
    /\ BinaryApplied /\ src = T_minus /\ Len(in) = 4
    /\ OperandA # OperandB /\ Exact(src, OperandA, OperandB)
    /\ res = Ok(Step(src, in).stack, cin)

\* C16: + - * push the exact result reduced modulo 2^32 into
\* [-2^31, 2^31 - 1] for all 32-bit a and b, never an error.
C16_Wraparound ==
    (BinaryApplied /\ src \in {T_plus, T_minus, T_mul})
        => res = Ok(Step(src, in).stack, cin)

\* |r| < |b|
AbsLess(r, b) == IF b > 0 THEN -b < r /\ r < b ELSE b < r /\ b < -r

\* C17: for non-zero b and a representable quotient, a / b is the quotient
\* rounded toward zero, a % b is zero or has the sign of a, and
\* (a / b) * b + (a % b) = a.
C17_Truncating ==
    LET a == OperandA
        b == OperandB
        q == back(apply(variant, "trap", BinaryOP("divides"), <<a, b>>, <<>>).stack)
        r == back(apply(variant, "trap", BinaryOP("modulus"), <<a, b>>, <<>>).stack)
    IN  (BinaryApplied /\ src \in {T_div, T_mod} /\ Exact(src, a, b))
            => /\ res.st = "ok"
               /\ res.stack = Append(Below, IF src = T_div THEN q ELSE r)
               /\ AbsLess(r, b)
               /\ r = 0 \/ (r < 0) = (a < 0)
               /\ ~MulOverflows(q, b)
               /\ q * b + r = a

\* a division and a remainder with a negative dividend that b does not divide
C17_Witness ==
    /\ BinaryApplied /\ src \in {T_div, T_mod}
    /\ OperandA = -10 /\ OperandB = 3
    /\ res.st = "ok"

HasInput(op) == \E n \in Nodes(op) : n.kind = "Input"

\* C15: an operation that reports is_pure() returns the same stack from the
\* same stack whatever the input stream holds; every operation containing
\* input reports is_pure() false; a Sequence is pure iff both children are.
C15_Purity ==
    (stmt.st = "returned" /\ stmt.op # nullptr)
        => /\ HasInput(stmt.op) => ~stmt.op.pure
           /\ \A n \in Nodes(stmt.op) :
                  n.kind = "Combine" => (n.pure <=> (n.l.pure /\ n.r.pure))
           /\ (pc = "applied" /\ stmt.op.pure /\ res.st = "ok")
                  => \A c \in Streams, ovf \in OverflowModes :
                         LET o == apply(variant, ovf, stmt.op, in, c)
                         IN  o.st = "ok" => o.stack = res.stack

\* C18: a token made of an optional + or - and decimal digits compiles to
\* the Literal of that signed value, never to a sign operator and a number:
\* compile(t) reports arguments = 0 and results = 1, and compile(t).apply([])
\* is [value].
C18_SignedLiteral ==
    (made = "compile" /\ SmallLiteral(src))
        => /\ stmt.st = "returned"
           /\ stmt.op # nullptr
           /\ stmt.op.kind = "ConstOp"
           /\ <<stmt.op.arguments, stmt.op.results>> = <<0, 1>>
           /\ (pc = "applied" /\ in = <<>>) => res = Ok(<<LiteralValue(src)>>, cin)

\* C19: two sources with the same token sequence, differing only in the
\* number of spaces between tokens and at the ends, compile to operations
\* with equal arguments, results, purity and apply results: every source
\* compiles to what its tokens joined by single spaces compile to.
C19_Spaces ==
    made = "compile"
        => \E ovf \in OverflowModes :
               /\ stmt = Ends(compile(variant, ovf, src))
               /\ Alike(stmt, Ends(compile(variant, ovf, Join(SpaceSplit(src)))))

\* C20: when input is applied and the input stream has no more data, apply
\* raises an InputExhausted error instead of pushing a value and returning a
\* stack.
C20_InputExhausted ==
    (/\ pc = "applied" /\ made = "compile"
     /\ stmt.op.kind = "Input" /\ cin = <<>>)
        => res = Thrown("InputExhausted")

\* C21: compile terminates on every source string and optimize on every
\* operation: no call is left running for ever.
C21_Terminates == stmt.st # "hang"

C23_Unfolded ==
    (made = "optimize" /\ stmt.st = "returned" /\ pre.kind = "Combine") =>
        LET left_optimized == optimize(variant, "wrap", pre.l)
            right_optimized == optimize(variant, "wrap", pre.r)
        IN  (/\ left_optimized.st = "returned"
             /\ right_optimized.st = "returned"
             /\ ULess(left_optimized.op.results, right_optimized.op.arguments))
            => stmt.op = Combine(variant, left_optimized.op, right_optimized.op)

\* what may lie under the elements an operation works on
Prefixes == {<<7>>, <<-2, 7>>}

\* C24: for every pure operation op, every stack s with at least op.arguments
\* elements and every prefix p, op.apply(p ++ s) = p ++ op.apply(s).
C24_Frame ==
    (/\ pc = "applied" /\ stmt.op # nullptr
     /\ stmt.op.pure /\ ~HasInput(stmt.op)
     /\ ~ULess(Len(in), stmt.op.arguments))
        => LET lone == apply(variant, "wrap", stmt.op, in, <<>>)
           IN  lone.st = "ok"
                   => \A p \in Prefixes :
                          apply(variant, "wrap", stmt.op, p \o in, <<>>)
                              = Ok(p \o lone.stack, <<>>)

\* C25: for an operation op built by compile and | from literals, arithmetic,
\* abs and dup, and a stack s with at least op.arguments elements,
\* Len(op.apply(s)) = Len(s) - op.arguments + op.results.
C25_Length ==
    (/\ pc = "applied" /\ made \in {"compile", "pipe"}
     /\ stmt.op # nullptr /\ PureBuilt(stmt.op)
     /\ ~ULess(Len(in), stmt.op.arguments))
        => LET lone == apply(variant, "wrap", stmt.op, in, <<>>)
           IN  lone.st = "ok"
                   => Len(lone.stack) = Len(in) - stmt.op.arguments + stmt.op.results

\* C26: optimize(op) reports the same arguments, results and purity as op.
C26_SameCounts ==
    (made = "optimize" /\ stmt.st = "returned")
        => /\ stmt.op.arguments = pre.arguments
           /\ stmt.op.results = pre.results
           /\ stmt.op.pure = pre.pure

\* C27: the evaluation of a pure operation on a stack with at least its
\* declared arguments never fails: whatever the values on the stack (a zero
\* divisor, INT_MIN / -1), apply returns a stack and ends in no error state.
C27_NeverFails ==
    (BinaryApplied /\ stmt.op.pure /\ src \in {T_div, T_mod})
        => res.st = "ok" /\ Len(res.stack) = Len(in) - 1

====
